---- MODULE Spec2Model ----
(***************************************************************************)
(* Batch-job orchestration of dsearch: BatchService (the Job Manager) of   *)
(* src/app/services/batch/batch_service.py over the key-value store of     *)
(* src/app/services/redis/redis_service.py, the document executors of      *)
(* src/app/services/batch/document_processor.py, and JobScheduler of       *)
(* src/app/services/batch/job_scheduler.py.                                *)
(*                                                                         *)
(* Specifications.  Spec: the manager with abstract executors.  SpecFair:  *)
(* Spec with the event loop's fairness.  SpecJson: the manager over        *)
(* json.dumps as coded.  SpecProc: one job of a document executor, step by *)
(* step, over every input within the bounds.  SpecSched: the scheduler     *)
(* over the manager.  SpecSchedFair: the scheduler with its timer loop     *)
(* running, for the schedules that fire every minute.  SpecList: two jobs  *)
(* created at different times, for list_jobs and get_job_statistics.       *)
(* SpecCalls: the operations of the manager one Redis call at a time.      *)
(* SpecOutage: SpecFair with a waiter whose write the server may not       *)
(* take.  SpecStats: a store of more jobs than list_jobs returns by        *)
(* default, for get_job_statistics.                                        *)
(*                                                                         *)
(* Concurrency.  Everything runs on one asyncio event loop.  The methods   *)
(* of RedisService are `async def` with a synchronous body, so awaiting    *)
(* them never suspends: create_job, get_job, update_job, execute_job,      *)
(* cancel_job, retry_job and delete_job each run to their return without   *)
(* yielding and are one atomic action each (SpecCalls takes them apart at  *)
(* their Redis calls, and says what would interleave if an await of        *)
(* RedisService suspended).  What does interleave:                         *)
(*   - the executor task created by execute_job (it suspends in            *)
(*     asyncio.sleep and in its external calls),                           *)
(*   - the supervisory waiter _wait_for_job_completion, resumed by the     *)
(*     loop some time after the executor task is done,                     *)
(*   - one task per progress callback, running update_job at the next      *)
(*     loop iteration (it is queued before the executor's own wake-up, so  *)
(*     it runs before the executor's next step),                           *)
(*   - the callers' requests.                                              *)
(*                                                                         *)
(* Store.  RedisService.set serialises with json.dumps, which raises       *)
(* TypeError on a datetime; set swallows the error and stores nothing.     *)
(* A BatchJob always carries created_at/updated_at datetimes.  The         *)
(* variable json_datetime says whether the encoder accepts a datetime:     *)
(* Spec takes the store by its contract (set stores, get returns what was  *)
(* set), SpecJson takes json.dumps as the code calls it.                   *)
(*                                                                         *)
(* Scheduler.  APScheduler is taken by its documented behaviour: add_job   *)
(* with replace_existing replaces the job of the same id by a new one that *)
(* is not paused; remove_job, pause_job and resume_job raise               *)
(* JobLookupError for an unknown id; a paused job is not run; a cron job   *)
(* stays in the job store after a run.  A firing is one step.  Timezone    *)
(* and max_instances are not modelled.                                     *)
(*                                                                         *)
(* Not modelled: the 7-day expiry of a record, and the fields of a job     *)
(* that no operation of the manager reads or writes after creation (name,  *)
(* description, parameters, priority, scheduled_at, timeout_seconds,       *)
(* worker_id).                                                             *)
(***************************************************************************)
EXTENDS Integers, Sequences, FiniteSets, TLC

\* ---------------------------------------------------------------- bounds
MaxTasks == 3
MaxTime == 2
MaxRetryCount == 1
MaxFiles == 3
MaxCalls == 2

\* Jobs stored beyond the default limit of list_jobs, and jobs cancelled among
\* them, where the statistics are taken over a full store.
MaxExtra == 1

MaxCancelled == 1

\* ------------------------------------------------------------- constants
JobIds == {1, 2}
TaskIds == 1..MaxTasks
NoTask == 0
RetryCounts == 0..MaxRetryCount
JobTypes == {"bulk_index", "data_migration"}
ProgressTypes == {"bulk_index"}
KnownTypes == {"document_index", "bulk_index", "index_maintenance", "vector_generation"}
BatchJobStatus == {"pending", "running", "completed", "failed", "cancelled", "retrying"}
ProgressVals == {50, 100}
Results == {"indexed", "not_indexed"}
NoneStr == "None"
NoJob == [absent |-> TRUE]
Some(x) == <<x>>
NoneVal == <<>>
UnknownTypeError == [type |-> "ValueError", error |-> "Unknown job type"]
ParamsError == [type |-> "ValidationError", error |-> "invalid parameters"]
MaxNameLength == 200
FireSuffix == 22
ManualSuffix == 35
DefaultRetryCount == 0
DefaultLimit == 50
Limits == {-1, 0, 1, 2, DefaultLimit}
ScheduleNames == {"daily", "long"}
SchedTypes == {"index_maintenance", "vector_generation"}
NoOrigin == "none"
ManualRun == "manual run"
FileKinds == {"ok", "malformed"}
BatchSizes == {1, 2}
ProcTypes == {"bulk_index", "document_index"}
UpdateFields == {"status", "progress_percent", "message", "result", "error_details", "completed_at"}

VARIABLES store, running_jobs, tasks, now, issued, created, json_datetime, scope,
          fs, proc, calls, scheduler, scheduled_jobs, jobstore, origin

\* What an executor works on and where it stands; the coroutines of the
\* manager that have begun and not returned.
exec_vars == <<fs, proc, calls>>

\* JobScheduler: self.scheduler (started or None), self.scheduled_jobs, the
\* job store of the APScheduler instance, and which schedule made which job.
sched_vars == <<scheduler, scheduled_jobs, jobstore, origin>>

vars == <<store, running_jobs, tasks, now, issued, created, json_datetime, scope, exec_vars, sched_vars>>

\* ------------------------------------------------------------ the models
\* BatchJobCreate + BatchJob defaults; created_at/updated_at by default_factory.
BatchJob(id, job_type, retry_count, t) ==
    [id |-> id, job_type |-> job_type, retry_count |-> retry_count,
     status |-> "pending", progress_percent |-> 0, message |-> NoneStr,
     result |-> NoneStr, error_details |-> NoneVal,
     created_at |-> t, updated_at |-> t,
     started_at |-> NoneVal, completed_at |-> NoneVal, attempts |-> 0]

\* BatchJobUpdate(**kw): pydantic ignores a keyword that is no field of the model.
BatchJobUpdate(kw) == [f \in (DOMAIN kw) \cap UpdateFields |-> kw[f]]

\* job.dict() keeps created_at (never None) as a datetime object.
HasDatetime(job) == "created_at" \in DOMAIN job

\* json.dumps(value): raises TypeError on a datetime unless the encoder takes it.
JsonSerializable(value) == json_datetime \/ ~HasDatetime(value)

\* RedisService.set: stores the value, or swallows the encoder's error.
redis_set(st, id, value) ==
    IF JsonSerializable(value) THEN [st EXCEPT ![id] = value] ELSE st

\* RedisService.get + json.loads
redis_get(st, id) == st[id]

\* RedisService.delete: the number of keys removed.
redis_delete_count(st, id) == IF st[id] = NoJob THEN 0 ELSE 1

redis_delete(st, id) == [st EXCEPT ![id] = NoJob]

store_job(st, job) == redis_set(st, job.id, job)

get_job(st, id) == redis_get(st, id)

\* update_job: the fields set in the update are assigned, then the timestamps.
MergeUpdate(job, upd) ==
    [f \in DOMAIN job |-> IF f \in DOMAIN upd THEN upd[f] ELSE job[f]]

UpdStatus(upd) == IF "status" \in DOMAIN upd THEN upd["status"] ELSE NoneStr

StampUpdate_every_start(job, upd, t) ==
    IF UpdStatus(upd) = "running"
    THEN [job EXCEPT !.started_at = Some(t)]
    ELSE IF UpdStatus(upd) \in {"completed", "failed"}
         THEN [job EXCEPT !.completed_at = Some(t)]
         ELSE job

\* `if status == RUNNING and not job.started_at` / `elif status in [COMPLETED,
\* FAILED]`; updated_at is assigned nowhere.
StampUpdate(job, upd, t) ==
    IF UpdStatus(upd) = "running" /\ job.started_at = NoneVal
    THEN [job EXCEPT !.started_at = Some(t)]
    ELSE IF UpdStatus(upd) \in {"completed", "failed"}
         THEN [job EXCEPT !.completed_at = Some(t)]
         ELSE job

update_job(st, id, upd, t) ==
    IF get_job(st, id) = NoJob THEN st
    ELSE store_job(st, StampUpdate(MergeUpdate(get_job(st, id), upd), upd, t))

update_job_ok(st, id) == get_job(st, id) # NoJob

\* create_job: builds the record, stores it and returns it whatever set returned.
create_job(st, id, job_type, retry_count, t) ==
    [store |-> store_job(st, BatchJob(id, job_type, retry_count, t)),
     job |-> BatchJob(id, job_type, retry_count, t)]

\* ------------------------------------------------- the manager operations
\* The part of the state the operations of the manager act on, with the
\* value the operation returns.
World == [store |-> store, running_jobs |-> running_jobs, tasks |-> tasks, ok |-> FALSE]

\* asyncio.create_task(self._execute_job_by_type(job)): job is the record read
\* before the update to running.
NewTask(job) ==
    [job |-> job.id, job_type |-> job.job_type, state |-> "running",
     result |-> NoneStr, error |-> NoneVal, emitted |-> 0, pending |-> NoneVal,
     cancel_requested |-> FALSE]

\* Task.cancel(): a task that is not done gets CancelledError at its next step;
\* on a task that is done it does nothing.
task_cancel(task) ==
    [task EXCEPT !.cancel_requested = TRUE,
                 !.state = IF @ = "running" THEN "cancelling" ELSE @]

execute_job_any_status(w, id, t) ==
    LET job == get_job(w.store, id) IN
    IF job = NoJob THEN [w EXCEPT !.ok = FALSE]
    ELSE [store |-> update_job(w.store, id,
                       BatchJobUpdate([status |-> "running", message |-> "Job started"]), t),
          tasks |-> Append(w.tasks, NewTask(job)),
          running_jobs |-> [w.running_jobs EXCEPT ![id] = Len(w.tasks) + 1],
          ok |-> TRUE]

\* execute_job.  Its except branch needs get_job, update_job or create_task to
\* raise, which none of them does (each catches its own errors).
execute_job(w, id, t) ==
    LET job == get_job(w.store, id) IN
    IF job = NoJob THEN [w EXCEPT !.ok = FALSE]
    ELSE IF job.status # "pending" THEN [w EXCEPT !.ok = FALSE]
    ELSE [store |-> update_job(w.store, id,
                       BatchJobUpdate([status |-> "running", message |-> "Job started"]), t),
          tasks |-> Append(w.tasks, NewTask(job)),
          running_jobs |-> [w.running_jobs EXCEPT ![id] = Len(w.tasks) + 1],
          ok |-> TRUE]

cancel_job_if_active(w, id, t) ==
    LET h == w.running_jobs[id]
        job == get_job(w.store, id) IN
    IF job # NoJob /\ job.status \notin {"pending", "running"} THEN [w EXCEPT !.ok = FALSE]
    ELSE [store |-> update_job(w.store, id,
                       BatchJobUpdate([status |-> "cancelled", message |-> "Job cancelled by user"]), t),
          tasks |-> IF h # NoTask THEN [w.tasks EXCEPT ![h] = task_cancel(@)] ELSE w.tasks,
          running_jobs |-> [w.running_jobs EXCEPT ![id] = NoTask],
          ok |-> TRUE]

\* cancel_job: Task.cancel() and `del` for a registered handle, then the
\* update to cancelled whatever the status is; True unless something raises.
cancel_job(w, id, t) ==
    LET h == w.running_jobs[id] IN
    [store |-> update_job(w.store, id,
                  BatchJobUpdate([status |-> "cancelled", message |-> "Job cancelled by user"]), t),
     tasks |-> IF h # NoTask THEN [w.tasks EXCEPT ![h] = task_cancel(@)] ELSE w.tasks,
     running_jobs |-> [w.running_jobs EXCEPT ![id] = NoTask],
     ok |-> TRUE]

retry_job_retrying(w, id, t) ==
    LET job == get_job(w.store, id) IN
    IF job = NoJob THEN [w EXCEPT !.ok = FALSE]
    ELSE IF job.status # "failed" THEN [w EXCEPT !.ok = FALSE]
    ELSE IF job.attempts >= job.retry_count THEN [w EXCEPT !.ok = FALSE]
    ELSE [w EXCEPT !.store = update_job(w.store, id,
               BatchJobUpdate([status |-> "retrying", message |-> "Job queued for retry"]), t),
                   !.ok = TRUE]

\* retry_job: a failed job with attempts left is updated to pending and
\* handed to execute_job; attempts is no field of BatchJobUpdate.
retry_job(w, id, t) ==
    LET job == get_job(w.store, id) IN
    IF job = NoJob THEN [w EXCEPT !.ok = FALSE]
    ELSE IF job.status # "failed" THEN [w EXCEPT !.ok = FALSE]
    ELSE IF job.attempts >= job.retry_count THEN [w EXCEPT !.ok = FALSE]
    ELSE execute_job(
           [w EXCEPT !.store = update_job(w.store, id,
               BatchJobUpdate([status |-> "pending", message |-> "Job queued for retry",
                               attempts |-> job.attempts + 1]), t)],
           id, t)

delete_job_no_cancel(w, id, t) ==
    [w EXCEPT !.store = redis_delete(w.store, id),
              !.ok = redis_delete_count(w.store, id) > 0]

delete_job(w, id, t) ==
    LET w1 == IF w.running_jobs[id] # NoTask THEN cancel_job(w, id, t) ELSE w IN
    [w1 EXCEPT !.store = redis_delete(w1.store, id),
               !.ok = redis_delete_count(w1.store, id) > 0]

\* ------------------------------------------------------ list and statistics
\* redis.keys("batch_job:*"): the keys of the stored records, in an order
\* Redis does not promise.
Keys(st) == {id \in JobIds : st[id] # NoJob}

KeyOrders(st) ==
    {keys \in [1..Cardinality(Keys(st)) -> Keys(st)] :
        \A i, j \in DOMAIN keys : i # j => keys[i] # keys[j]}

\* `if status and job.status != status: continue`, the same for job_type.
passes_filters(job, status, job_type) ==
    /\ status # NoneStr => job.status = status
    /\ job_type # NoneStr => job.job_type = job_type

\* One step of jobs.sort(key=created_at, reverse=True): the sort is stable, a
\* job goes behind the jobs that are as new as it is.
insert_by_created_at_ascending(sorted, job) ==
    LET n == Cardinality({i \in DOMAIN sorted : sorted[i].created_at <= job.created_at}) IN
    SubSeq(sorted, 1, n) \o <<job>> \o SubSeq(sorted, n + 1, Len(sorted))

insert_by_created_at(sorted, job) ==
    LET n == Cardinality({i \in DOMAIN sorted : sorted[i].created_at >= job.created_at}) IN
    SubSeq(sorted, 1, n) \o <<job>> \o SubSeq(sorted, n + 1, Len(sorted))

RECURSIVE sort_by_created_at(_)
sort_by_created_at(jobs) ==
    IF Len(jobs) = 0 THEN jobs
    ELSE insert_by_created_at(sort_by_created_at(SubSeq(jobs, 1, Len(jobs) - 1)), jobs[Len(jobs)])

\* jobs[:limit]: a negative limit counts from the end of the list.
slice_to(jobs, limit) ==
    LET stop == IF limit >= 0 THEN limit ELSE Len(jobs) + limit IN
    SubSeq(jobs, 1, IF stop > Len(jobs) THEN Len(jobs) ELSE IF stop < 0 THEN 0 ELSE stop)

\* list_jobs, the keys coming in the order `keys`.
list_jobs(st, keys, status, job_type, limit) ==
    LET loaded == [i \in DOMAIN keys |-> get_job(st, keys[i])]
        keep(job) == job # NoJob /\ passes_filters(job, status, job_type)
    IN slice_to(sort_by_created_at(SelectSeq(loaded, keep)), limit)

CountStatus(jobs, status) == Cardinality({i \in DOMAIN jobs : jobs[i].status = status})

\* completed / total_finished * 100, kept as the fraction it is the value of.
success_rate_of_all(jobs) ==
    [num |-> CountStatus(jobs, "completed") * 100, den |-> Len(jobs)]

success_rate_percent(jobs) ==
    [num |-> CountStatus(jobs, "completed") * 100,
     den |-> CountStatus(jobs, "completed") + CountStatus(jobs, "failed")]

\* get_job_statistics: list_jobs() with its defaults, then the counts.
get_job_statistics(st, keys) ==
    LET jobs == list_jobs(st, keys, NoneStr, NoneStr, DefaultLimit) IN
    [total_jobs |-> Len(jobs),
     pending_jobs |-> CountStatus(jobs, "pending"),
     running_jobs |-> CountStatus(jobs, "running"),
     completed_jobs |-> CountStatus(jobs, "completed"),
     failed_jobs |-> CountStatus(jobs, "failed"),
     cancelled_jobs |-> CountStatus(jobs, "cancelled"),
     success_rate_percent |->
         IF CountStatus(jobs, "completed") + CountStatus(jobs, "failed") > 0
         THEN Some(success_rate_percent(jobs)) ELSE NoneVal]

\* ----------------------------------------------------------------- state
\* What TLC explores: one job through MaxTasks launches and MaxTime clock
\* values, and two jobs side by side with fewer of both.
Scopes ==
    {[jobs |-> 1, tasks |-> MaxTasks, time |-> MaxTime],
     [jobs |-> Cardinality(JobIds), tasks |-> MaxTasks - 2, time |-> MaxTime - 1]}

\* With json.dumps as the code calls it the store stays empty: a wider scope.
ScopesJson == {[jobs |-> Cardinality(JobIds), tasks |-> MaxTasks, time |-> MaxTime + 1]}

\* Before an executor has started: nothing enumerated, nothing counted.
NoInput ==
    [path_exists |-> TRUE, params_valid |-> TRUE, kind |-> "ok", files |-> <<>>,
     overwrite_existing |-> FALSE, batch_size |-> 1]

\* No coroutine of the manager has begun.
NoCalls == <<>>

NoProc == [pc |-> "start", i |-> 1, processed_count |-> 0, failed_count |-> 0]

InitManager ==
    /\ store = [i \in JobIds |-> NoJob]
    /\ running_jobs = [i \in JobIds |-> NoTask]
    /\ tasks = <<>>
    /\ now = 1
    /\ issued = {}
    /\ created = [i \in JobIds |-> NoJob]
    /\ proc = [k \in TaskIds |-> NoProc]
    /\ calls = NoCalls

\* JobScheduler.__init__
InitScheduler ==
    /\ scheduler = FALSE
    /\ scheduled_jobs = {}
    /\ jobstore = {}
    /\ origin = [i \in JobIds |-> NoOrigin]

InitCommon == InitManager /\ InitScheduler /\ fs = NoInput

Init == InitCommon /\ json_datetime = TRUE /\ scope \in Scopes

InitJson == InitCommon /\ json_datetime = FALSE /\ scope \in ScopesJson

Apply(w) ==
    /\ store' = w.store
    /\ running_jobs' = w.running_jobs
    /\ tasks' = w.tasks

\* datetime.utcnow() does not go back.
Tick ==
    /\ now < scope.time
    /\ now' = now + 1
    /\ UNCHANGED <<store, running_jobs, tasks, issued, created, json_datetime, scope, exec_vars, sched_vars>>

\* create_job: uuid4 gives an id no earlier call gave.
CreateJob(id, job_type, retry_count) ==
    /\ id \notin issued
    /\ id <= scope.jobs
    /\ \A j \in JobIds : j < id => j \in issued
    /\ store' = create_job(store, id, job_type, retry_count, now).store
    /\ created' = [created EXCEPT ![id] = create_job(store, id, job_type, retry_count, now).job]
    /\ issued' = issued \cup {id}
    /\ UNCHANGED <<running_jobs, tasks, now, json_datetime, scope, exec_vars, sched_vars>>

ExecuteJob(id) ==
    LET w == execute_job(World, id, now) IN
    /\ w.ok => Len(tasks) < scope.tasks
    /\ Apply(w)
    /\ UNCHANGED <<now, issued, created, json_datetime, scope, exec_vars, sched_vars>>

CancelJob(id) ==
    LET w == cancel_job(World, id, now) IN
    /\ Apply(w)
    /\ UNCHANGED <<now, issued, created, json_datetime, scope, exec_vars, sched_vars>>

RetryJob(id) ==
    LET w == retry_job(World, id, now) IN
    /\ w.ok => Len(tasks) < scope.tasks
    /\ Apply(w)
    /\ UNCHANGED <<now, issued, created, json_datetime, scope, exec_vars, sched_vars>>

DeleteJob(id) ==
    LET w == delete_job(World, id, now) IN
    /\ Apply(w)
    /\ UNCHANGED <<now, issued, created, json_datetime, scope, exec_vars, sched_vars>>

\* ------------------------------------------------------ the execution unit
ProgressTaskRan_or_not(task) == TRUE

\* progress_callback(progress) creates the task of update_job and the executor
\* goes on to `await asyncio.sleep(0.1)`: the new task is in the loop's ready
\* queue when the executor suspends and has run (update_job never suspends)
\* before the timer lets the executor, and after it the waiter, go on.
ProgressTaskRan(task) == task.pending = NoneVal

CanStep(k) == k \in DOMAIN tasks /\ tasks[k].state = "running" /\ ProgressTaskRan(tasks[k])

\* bulk_index_documents, after a batch: progress_callback(progress) creates a
\* task that will run update_job; progress never goes down from batch to batch.
EmitProgress(k, p) ==
    /\ CanStep(k)
    /\ tasks[k].job_type \in ProgressTypes
    /\ p >= tasks[k].emitted
    /\ tasks' = [tasks EXCEPT ![k].emitted = p, ![k].pending = Some(p)]
    /\ UNCHANGED <<store, running_jobs, now, issued, created, json_datetime, scope, exec_vars, sched_vars>>

\* The task of a progress callback: update_job(job.id, progress_percent=p).
RunProgressUpdate(k) ==
    /\ k \in DOMAIN tasks
    /\ tasks[k].pending # NoneVal
    /\ store' = update_job(store, tasks[k].job,
                   BatchJobUpdate([progress_percent |-> tasks[k].pending[1]]), now)
    /\ tasks' = [tasks EXCEPT ![k].pending = NoneVal]
    /\ UNCHANGED <<running_jobs, now, issued, created, json_datetime, scope, exec_vars, sched_vars>>

\* _execute_job_by_type returns the executor's result.
ExecutorReturns(k, r) ==
    /\ CanStep(k)
    /\ tasks[k].job_type \in KnownTypes
    /\ tasks' = [tasks EXCEPT ![k].state = "returned", ![k].result = r, ![k].emitted = 0]
    /\ UNCHANGED <<store, running_jobs, now, issued, created, json_datetime, scope, exec_vars, sched_vars>>

\* _execute_job_by_type raises: ValueError for a type with no executor, the
\* validation error of the parameters before any work otherwise.
ExecutorRaises(k) ==
    /\ CanStep(k)
    /\ tasks[k].emitted = 0
    /\ tasks' = [tasks EXCEPT ![k].state = "raised",
                   ![k].error = IF tasks[k].job_type \in KnownTypes
                                THEN Some(ParamsError) ELSE Some(UnknownTypeError)]
    /\ UNCHANGED <<store, running_jobs, now, issued, created, json_datetime, scope, exec_vars, sched_vars>>

Finished(task) ==
    [task EXCEPT !.state = "done", !.result = NoneStr, !.error = NoneVal, !.emitted = 0,
                 !.cancel_requested = FALSE]

WaiterUpdate_status_only(task) ==
    IF task.state = "returned"
    THEN BatchJobUpdate([status |-> "completed", message |-> "Job completed successfully"])
    ELSE BatchJobUpdate([status |-> "failed", message |-> "Job failed"])

\* The update _wait_for_job_completion makes for the task's outcome.
WaiterUpdate(task) ==
    IF task.state = "returned"
    THEN BatchJobUpdate([status |-> "completed", progress_percent |-> 100,
                         message |-> "Job completed successfully", result |-> task.result])
    ELSE BatchJobUpdate([status |-> "failed",
                         message |-> "Job failed: " \o task.error[1].error,
                         error_details |-> Some([error |-> task.error[1].error,
                                                 type |-> task.error[1].type])])

drop_handle_never(rj, id) == rj

\* finally: if job_id in self._running_jobs: del self._running_jobs[job_id]
drop_handle(rj, id) == [rj EXCEPT ![id] = NoTask]

\* _wait_for_job_completion resumes after `await task`; finally drops the handle.
WaitForJobCompletion(k) ==
    /\ k \in DOMAIN tasks
    /\ tasks[k].state \in {"returned", "raised", "cancelling"}
    /\ ProgressTaskRan(tasks[k])
    /\ LET id == tasks[k].job IN
         /\ store' = IF tasks[k].state = "cancelling" THEN store
                      ELSE update_job(store, id, WaiterUpdate(tasks[k]), now)
         /\ running_jobs' = drop_handle(running_jobs, id)
    /\ tasks' = [tasks EXCEPT ![k] = Finished(@)]
    /\ UNCHANGED <<now, issued, created, json_datetime, scope, exec_vars, sched_vars>>

Next ==
    \/ Tick
    \/ \E id \in JobIds, jt \in JobTypes, rc \in RetryCounts : CreateJob(id, jt, rc)
    \/ \E id \in JobIds : ExecuteJob(id)
    \/ \E id \in JobIds : CancelJob(id)
    \/ \E id \in JobIds : RetryJob(id)
    \/ \E id \in JobIds : DeleteJob(id)
    \/ \E k \in TaskIds, p \in ProgressVals : EmitProgress(k, p)
    \/ \E k \in TaskIds : RunProgressUpdate(k)
    \/ \E k \in TaskIds, r \in Results : ExecutorReturns(k, r)
    \/ \E k \in TaskIds : ExecutorRaises(k)
    \/ \E k \in TaskIds : WaitForJobCompletion(k)

Spec == Init /\ [][Next]_vars

\* With json.dumps as the code calls it no record is ever stored, so only the
\* callers' requests act.
NextJson ==
    \/ Tick
    \/ \E id \in JobIds, jt \in JobTypes, rc \in RetryCounts : CreateJob(id, jt, rc)
    \/ \E id \in JobIds : ExecuteJob(id)
    \/ \E id \in JobIds : CancelJob(id)
    \/ \E id \in JobIds : RetryJob(id)
    \/ \E id \in JobIds : DeleteJob(id)

SpecJson == InitJson /\ [][NextJson]_vars

\* The event loop runs every task that is ready: a waiter whose task is done
\* and the task of a progress callback are resumed eventually.  Nothing makes
\* an executor finish or a caller call.
LoopFairness ==
    \A k \in TaskIds : WF_vars(WaitForJobCompletion(k)) /\ WF_vars(RunProgressUpdate(k))

\* Under fairness TLC explores one job through MaxTasks - 1 launches.
ScopesFair == {[jobs |-> 1, tasks |-> MaxTasks - 1, time |-> MaxTime]}

InitFair == InitCommon /\ json_datetime = TRUE /\ scope \in ScopesFair

SpecFair == InitFair /\ [][Next]_vars /\ LoopFairness

\* For the lists: two jobs created at different times, each launched at most
\* once between them.
ScopesList == {[jobs |-> Cardinality(JobIds), tasks |-> MaxTasks - 2, time |-> MaxTime]}

InitList == InitCommon /\ json_datetime = TRUE /\ scope \in ScopesList

\* Progress updates write progress_percent only, which neither the list nor
\* the statistics read: the lists are explored without them.
NextList ==
    \/ Tick
    \/ \E id \in JobIds, jt \in JobTypes, rc \in RetryCounts : CreateJob(id, jt, rc)
    \/ \E id \in JobIds : ExecuteJob(id)
    \/ \E id \in JobIds : CancelJob(id)
    \/ \E id \in JobIds : RetryJob(id)
    \/ \E id \in JobIds : DeleteJob(id)
    \/ \E k \in TaskIds, r \in Results : ExecutorReturns(k, r)
    \/ \E k \in TaskIds : ExecutorRaises(k)
    \/ \E k \in TaskIds : WaitForJobCompletion(k)

SpecList == InitList /\ [][NextList]_vars

\* ------------------------------------------- the statistics of a full store
\* The ids of a store that holds more jobs than list_jobs returns by default.
ManyIds == 1..(DefaultLimit + MaxExtra)

ScopesStats == {[jobs |-> DefaultLimit + MaxExtra, tasks |-> 0, time |-> 1]}

InitStats ==
    /\ store = [i \in ManyIds |-> NoJob]
    /\ running_jobs = [i \in ManyIds |-> NoTask]
    /\ tasks = <<>>
    /\ now = 1
    /\ issued = {}
    /\ created = [i \in JobIds |-> NoJob]
    /\ proc = [k \in TaskIds |-> NoProc]
    /\ calls = NoCalls
    /\ InitScheduler
    /\ fs = NoInput
    /\ json_datetime = TRUE
    /\ scope \in ScopesStats

\* create_job, for the next of the ids.
CreateJobStats(id, job_type, retry_count) ==
    /\ id \notin issued
    /\ \A j \in ManyIds : j < id => j \in issued
    /\ store' = create_job(store, id, job_type, retry_count, now).store
    /\ issued' = issued \cup {id}
    /\ UNCHANGED <<running_jobs, tasks, now, created, json_datetime, scope, exec_vars, sched_vars>>

Cancelled(st) == {id \in DOMAIN st : st[id] # NoJob /\ st[id].status = "cancelled"}

NextStats ==
    \/ \E id \in ManyIds : CreateJobStats(id, "bulk_index", DefaultRetryCount)
    \/ \E id \in ManyIds : Cardinality(Cancelled(store)) < MaxCancelled /\ CancelJob(id)

SpecStats == InitStats /\ [][NextStats]_vars

\* --------------------------------------- a write the server does not take
\* RedisService.set when client.set raises (the server cannot be reached):
\* the except branch logs the error and returns False; nothing is stored.
redis_set_error(st, id, value) == st

\* _wait_for_job_completion when the set of its update fails: _store_job
\* drops the False of set, update_job returns True and the waiter does not
\* look at it; finally drops the handle.
WaitForJobCompletionSetFails(k) ==
    /\ k \in DOMAIN tasks
    /\ tasks[k].state \in {"returned", "raised"}
    /\ ProgressTaskRan(tasks[k])
    /\ LET id == tasks[k].job
           job == get_job(store, id) IN
         /\ store' = IF job = NoJob THEN store
                      ELSE redis_set_error(store, id,
                               StampUpdate(MergeUpdate(job, WaiterUpdate(tasks[k])),
                                           WaiterUpdate(tasks[k]), now))
         /\ running_jobs' = drop_handle(running_jobs, id)
    /\ tasks' = [tasks EXCEPT ![k] = Finished(@)]
    /\ UNCHANGED <<now, issued, created, json_datetime, scope, exec_vars, sched_vars>>

NextOutage ==
    \/ Next
    \/ \E k \in TaskIds : WaitForJobCompletionSetFails(k)

\* The event loop runs the waiter of a unit that is done, whatever the server
\* answers, and the task of a progress callback.
OutageFairness ==
    \A k \in TaskIds :
        /\ WF_vars(WaitForJobCompletion(k) \/ WaitForJobCompletionSetFails(k))
        /\ WF_vars(RunProgressUpdate(k))

SpecOutage == InitFair /\ [][NextOutage]_vars /\ OutageFairness

\* ------------------------------------- the operations, await by await
AwaitSuspends_always == TRUE

\* `await self.redis.get(...)`, `.set(...)`, `.delete(...)`: the methods of
\* RedisService are coroutines with no await in their bodies (they call the
\* blocking client), so awaiting them never lets the event loop run another
\* task: a coroutine of the manager that has begun runs to its return.
AwaitSuspends == FALSE

\* The event loop is free to run a request, a step of an executor, a waiter
\* or the task of a progress callback.
Quiet == AwaitSuspends \/ calls = NoCalls

\* A coroutine that has begun: the Redis calls it has still to make (steps),
\* the record update_job holds between its get and its set (job) with the
\* fields the update assigns, the record execute_job read (arg), and the
\* unit a waiter or a progress task belongs to (k).
Call(op, id, k, steps) ==
    [op |-> op, id |-> id, k |-> k, steps |-> steps, job |-> NoJob, fields |-> {},
     arg |-> NoJob]

ExecuteSteps == <<"get_execute", "read_running", "write">>

RetrySteps == <<"get_retry", "read_pending", "write">> \o ExecuteSteps

CancelSteps == <<"read_cancelled", "write">>

DeleteSteps(handle) == IF handle # NoTask THEN CancelSteps \o <<"delete">> ELSE <<"delete">>

ProgressSteps == <<"read_progress", "write">>

WaiterSteps == <<"read_outcome", "write">>

\* The update a call of update_job is given.
UpdateFor(label, c, tk) ==
    CASE label = "read_running" ->
           BatchJobUpdate([status |-> "running", message |-> "Job started"])
      [] label = "read_pending" ->
           BatchJobUpdate([status |-> "pending", message |-> "Job queued for retry",
                           attempts |-> c.arg.attempts + 1])
      [] label = "read_cancelled" ->
           BatchJobUpdate([status |-> "cancelled", message |-> "Job cancelled by user"])
      [] label = "read_progress" ->
           BatchJobUpdate([progress_percent |-> tk[c.k].pending[1]])
      [] label = "read_outcome" -> WaiterUpdate(tk[c.k])

\* What the coroutine does after its last Redis call: execute_job creates the
\* task and registers the handle, the waiter runs its finally, the task of a
\* progress callback ends.
AfterLastCall(w, c) ==
    IF c.op \in {"execute", "retry"}
    THEN [w EXCEPT !.tasks = Append(@, NewTask(c.arg)),
                   !.running_jobs = [@ EXCEPT ![c.id] = Len(w.tasks) + 1]]
    ELSE IF c.op = "waiter"
    THEN [w EXCEPT !.running_jobs = drop_handle(@, c.id),
                   !.tasks = [@ EXCEPT ![c.k] = Finished(@)]]
    ELSE IF c.op = "progress"
    THEN [w EXCEPT !.tasks = [@ EXCEPT ![c.k].pending = NoneVal]]
    ELSE w

\* The coroutine goes on with the steps `rest`, or returns.
Continue(w, c, rest) ==
    IF rest = <<>> THEN [w |-> AfterLastCall(w, c), call |-> c, returned |-> TRUE]
    ELSE [w |-> w, call |-> [c EXCEPT !.steps = rest, !.job = NoJob, !.fields = {}],
          returned |-> FALSE]

\* One Redis call of coroutine c with the code up to its next Redis call.
step(w, c, t) ==
    LET label == Head(c.steps)
        rest == Tail(c.steps)
        job == get_job(w.store, c.id) IN
    IF label = "get_execute"
    THEN IF job = NoJob \/ job.status # "pending"
         THEN [w |-> w, call |-> c, returned |-> TRUE]
         ELSE [w |-> w, call |-> [c EXCEPT !.steps = rest, !.arg = job], returned |-> FALSE]
    ELSE IF label = "get_retry"
    THEN IF job = NoJob \/ job.status # "failed" \/ job.attempts >= job.retry_count
         THEN [w |-> w, call |-> c, returned |-> TRUE]
         ELSE [w |-> w, call |-> [c EXCEPT !.steps = rest, !.arg = job], returned |-> FALSE]
    ELSE IF label = "write"
    THEN Continue([w EXCEPT !.store = store_job(@, c.job)], c, rest)
    ELSE IF label = "delete"
    THEN Continue([w EXCEPT !.store = redis_delete(@, c.id)], c, rest)
    ELSE IF job = NoJob
    THEN Continue(w, c, Tail(rest))
    ELSE LET upd == UpdateFor(label, c, w.tasks) IN
         [w |-> w,
          call |-> [c EXCEPT !.steps = rest, !.fields = DOMAIN upd,
                             !.job = StampUpdate(MergeUpdate(job, upd), upd, t)],
          returned |-> FALSE]

RemoveAt(s, i) == SubSeq(s, 1, i - 1) \o SubSeq(s, i + 1, Len(s))

\* The coroutines in flight that will create a task.
Launching == Cardinality({i \in DOMAIN calls : calls[i].op \in {"execute", "retry"}})

CanBegin == Quiet /\ Len(calls) < MaxCalls

BeginExecute(id) ==
    /\ CanBegin
    /\ Len(tasks) + Launching < scope.tasks
    /\ calls' = Append(calls, Call("execute", id, NoTask, ExecuteSteps))
    /\ UNCHANGED <<store, running_jobs, tasks, now, issued, created, json_datetime, scope, fs, proc, sched_vars>>

BeginRetry(id) ==
    /\ CanBegin
    /\ Len(tasks) + Launching < scope.tasks
    /\ calls' = Append(calls, Call("retry", id, NoTask, RetrySteps))
    /\ UNCHANGED <<store, running_jobs, tasks, now, issued, created, json_datetime, scope, fs, proc, sched_vars>>

\* cancel_job up to its update_job: the task is cancelled, the handle removed.
BeginCancel(id) ==
    /\ CanBegin
    /\ tasks' = IF running_jobs[id] # NoTask
                THEN [tasks EXCEPT ![running_jobs[id]] = task_cancel(@)] ELSE tasks
    /\ running_jobs' = [running_jobs EXCEPT ![id] = NoTask]
    /\ calls' = Append(calls, Call("cancel", id, NoTask, CancelSteps))
    /\ UNCHANGED <<store, now, issued, created, json_datetime, scope, fs, proc, sched_vars>>

\* delete_job: cancel_job first if a handle is registered.
BeginDelete(id) ==
    /\ CanBegin
    /\ tasks' = IF running_jobs[id] # NoTask
                THEN [tasks EXCEPT ![running_jobs[id]] = task_cancel(@)] ELSE tasks
    /\ running_jobs' = [running_jobs EXCEPT ![id] = NoTask]
    /\ calls' = Append(calls, Call("delete", id, NoTask, DeleteSteps(running_jobs[id])))
    /\ UNCHANGED <<store, now, issued, created, json_datetime, scope, fs, proc, sched_vars>>

InFlight(op, k) == \E i \in DOMAIN calls : calls[i].op = op /\ calls[i].k = k

\* The task of a progress callback starts.
BeginProgress(k) ==
    /\ CanBegin
    /\ k \in DOMAIN tasks
    /\ tasks[k].pending # NoneVal
    /\ ~InFlight("progress", k)
    /\ calls' = Append(calls, Call("progress", tasks[k].job, k, ProgressSteps))
    /\ UNCHANGED <<store, running_jobs, tasks, now, issued, created, json_datetime, scope, fs, proc, sched_vars>>

\* _wait_for_job_completion resumes after `await task`: CancelledError takes
\* it to its finally, a result or an error to update_job.
BeginWaiter(k) ==
    /\ Quiet
    /\ k \in DOMAIN tasks
    /\ tasks[k].state \in {"returned", "raised", "cancelling"}
    /\ ProgressTaskRan(tasks[k])
    /\ ~InFlight("waiter", k)
    /\ IF tasks[k].state = "cancelling"
       THEN /\ running_jobs' = drop_handle(running_jobs, tasks[k].job)
            /\ tasks' = [tasks EXCEPT ![k] = Finished(@)]
            /\ calls' = calls
       ELSE /\ Len(calls) < MaxCalls
            /\ calls' = Append(calls, Call("waiter", tasks[k].job, k, WaiterSteps))
            /\ UNCHANGED <<running_jobs, tasks>>
    /\ UNCHANGED <<store, now, issued, created, json_datetime, scope, fs, proc, sched_vars>>

\* The coroutine in flight makes its next Redis call.
StepCall(i) ==
    /\ i \in DOMAIN calls
    /\ LET r == step(World, calls[i], now) IN
         /\ Apply(r.w)
         /\ calls' = IF r.returned THEN RemoveAt(calls, i) ELSE [calls EXCEPT ![i] = r.call]
    /\ UNCHANGED <<now, issued, created, json_datetime, scope, fs, proc, sched_vars>>

ScopesCalls == {[jobs |-> 1, tasks |-> MaxTasks - 1, time |-> MaxTime]}

InitCalls == InitCommon /\ json_datetime = TRUE /\ scope \in ScopesCalls

NextCalls ==
    \/ Quiet /\ Tick
    \/ Quiet /\ \E id \in JobIds, jt \in JobTypes, rc \in RetryCounts : CreateJob(id, jt, rc)
    \/ \E id \in JobIds : BeginExecute(id)
    \/ \E id \in JobIds : BeginCancel(id)
    \/ \E id \in JobIds : BeginRetry(id)
    \/ \E id \in JobIds : BeginDelete(id)
    \/ \E i \in 1..MaxCalls : StepCall(i)
    \/ Quiet /\ \E k \in TaskIds, p \in ProgressVals : EmitProgress(k, p)
    \/ \E k \in TaskIds : BeginProgress(k)
    \/ Quiet /\ \E k \in TaskIds, r \in Results : ExecutorReturns(k, r)
    \/ Quiet /\ \E k \in TaskIds : ExecutorRaises(k)
    \/ \E k \in TaskIds : BeginWaiter(k)

SpecCalls == InitCalls /\ [][NextCalls]_vars

\* ------------------------------------------------ the document executors
\* A file as the executors see it: its kind (text can be extracted and the
\* document indexed, or not) and whether a document with its id is already in
\* the index.
Files == [kind : FileKinds, indexed : BOOLEAN]

\* DocumentProcessor.index_document: every error, the missing file included, is
\* caught and returned as a result with success False.
index_document(exists, kind) ==
    IF ~exists THEN [success |-> FALSE, error |-> "File not found"]
    ELSE IF kind = "malformed" THEN [success |-> FALSE, error |-> "Error indexing document"]
    ELSE [success |-> TRUE]

\* The body of the loop of bulk_index_documents for one file: a file already
\* indexed is skipped unless overwrite_existing, and counted nowhere.
bulk_file_count_skipped(p, file, overwrite_existing) ==
    IF index_document(TRUE, file.kind).success
    THEN [p EXCEPT !.i = @ + 1, !.processed_count = @ + 1]
    ELSE [p EXCEPT !.i = @ + 1, !.failed_count = @ + 1]

bulk_file(p, file, overwrite_existing) ==
    IF ~overwrite_existing /\ file.indexed THEN [p EXCEPT !.i = @ + 1]
    ELSE IF index_document(TRUE, file.kind).success
         THEN [p EXCEPT !.i = @ + 1, !.processed_count = @ + 1]
         ELSE [p EXCEPT !.i = @ + 1, !.failed_count = @ + 1]

bulk_progress_remaining(p, total_files) ==
    100 - ((p.processed_count + p.failed_count) * 100) \div total_files

\* int((processed_count + failed_count) / total_files * 100)
bulk_progress(p, total_files) == ((p.processed_count + p.failed_count) * 100) \div total_files

\* The file just handled was the last one of its batch.
BatchEnd(i, total_files, batch_size) == i % batch_size = 0 \/ i = total_files

bulk_result(p, total_files) ==
    [success |-> TRUE, total_files |-> total_files,
     processed_count |-> p.processed_count, failed_count |-> p.failed_count]

NoFilesResult ==
    [success |-> TRUE, message |-> "No files found to process",
     processed_count |-> 0, failed_count |-> 0]

\* str(e) of the FileNotFoundError of _find_files_to_process, as returned by the
\* except branch of bulk_index_documents.
SourcePathResult == [success |-> FALSE, error |-> "Source path not found"]

Returned(task, r) == [task EXCEPT !.state = "returned", !.result = r, !.emitted = 0]

\* BulkIndexJob(**job.parameters) / DocumentIndexJob(**job.parameters) raises
\* before the processor is called.
ParamsInvalid(k) ==
    /\ CanStep(k)
    /\ tasks[k].job_type \in ProcTypes
    /\ proc[k].pc = "start"
    /\ ~fs.params_valid
    /\ tasks' = [tasks EXCEPT ![k].state = "raised", ![k].error = Some(ParamsError)]
    /\ UNCHANGED <<store, running_jobs, now, issued, created, json_datetime, scope, exec_vars, sched_vars>>

\* bulk_index_documents up to the loop: _find_files_to_process raises inside
\* the try for a missing source path, and the except branch returns.
BulkFindFiles(k) ==
    /\ CanStep(k)
    /\ tasks[k].job_type = "bulk_index"
    /\ proc[k].pc = "start"
    /\ fs.params_valid
    /\ IF ~fs.path_exists
       THEN tasks' = [tasks EXCEPT ![k] = Returned(@, SourcePathResult)] /\ proc' = proc
       ELSE IF fs.files = <<>>
            THEN tasks' = [tasks EXCEPT ![k] = Returned(@, NoFilesResult)] /\ proc' = proc
            ELSE tasks' = tasks /\ proc' = [proc EXCEPT ![k].pc = "loop"]
    /\ UNCHANGED <<store, running_jobs, now, issued, created, json_datetime, scope, fs, calls, sched_vars>>

\* One file of the loop; after the last file of a batch progress_callback
\* creates its update task and the executor sleeps.
BulkProcessFile(k) ==
    /\ CanStep(k)
    /\ proc[k].pc = "loop"
    /\ proc[k].i <= Len(fs.files)
    /\ LET p == bulk_file(proc[k], fs.files[proc[k].i], fs.overwrite_existing) IN
         /\ proc' = [proc EXCEPT ![k] = p]
         /\ tasks' = IF BatchEnd(proc[k].i, Len(fs.files), fs.batch_size)
                     THEN [tasks EXCEPT ![k].pending = Some(bulk_progress(p, Len(fs.files))),
                                        ![k].emitted = bulk_progress(p, Len(fs.files))]
                     ELSE tasks
    /\ UNCHANGED <<store, running_jobs, now, issued, created, json_datetime, scope, fs, calls, sched_vars>>

\* After the loop: the index is refreshed (refresh_index catches its errors)
\* and the counts are returned.
BulkReturns(k) ==
    /\ CanStep(k)
    /\ proc[k].pc = "loop"
    /\ proc[k].i > Len(fs.files)
    /\ tasks' = [tasks EXCEPT ![k] = Returned(@, bulk_result(proc[k], Len(fs.files)))]
    /\ proc' = [proc EXCEPT ![k].pc = "done"]
    /\ UNCHANGED <<store, running_jobs, now, issued, created, json_datetime, scope, fs, calls, sched_vars>>

\* _execute_document_index_job returns what index_document returns.
DocumentIndex(k) ==
    /\ CanStep(k)
    /\ tasks[k].job_type = "document_index"
    /\ proc[k].pc = "start"
    /\ fs.params_valid
    /\ tasks' = [tasks EXCEPT ![k] = Returned(@, index_document(fs.path_exists, fs.kind))]
    /\ proc' = [proc EXCEPT ![k].pc = "done"]
    /\ UNCHANGED <<store, running_jobs, now, issued, created, json_datetime, scope, fs, calls, sched_vars>>

\* One job of a document executor, over every file system and index content
\* within the bounds.
FileSeqs == UNION {[1..n -> Files] : n \in 0..MaxFiles}

Inputs ==
    [path_exists : BOOLEAN, params_valid : BOOLEAN, kind : FileKinds, files : FileSeqs,
     overwrite_existing : BOOLEAN, batch_size : BatchSizes]

ScopesProc == {[jobs |-> 1, tasks |-> 1, time |-> 1]}

InitProc == InitManager /\ InitScheduler /\ fs \in Inputs /\ json_datetime = TRUE /\ scope \in ScopesProc

NextProc ==
    \/ \E id \in JobIds, jt \in ProcTypes, rc \in RetryCounts : CreateJob(id, jt, rc)
    \/ \E id \in JobIds : ExecuteJob(id)
    \/ \E k \in TaskIds : ParamsInvalid(k)
    \/ \E k \in TaskIds : BulkFindFiles(k)
    \/ \E k \in TaskIds : BulkProcessFile(k)
    \/ \E k \in TaskIds : BulkReturns(k)
    \/ \E k \in TaskIds : DocumentIndex(k)
    \/ \E k \in TaskIds : RunProgressUpdate(k)
    \/ \E k \in TaskIds : WaitForJobCompletion(k)

SpecProc == InitProc /\ [][NextProc]_vars

\* ------------------------------------------------------------ the scheduler
\* A cron expression is a string, here the sequence of its characters.
EveryMinute == <<"*", " ", "*", " ", "*", " ", "*", " ", "*">>

FourFields == SubSeq(EveryMinute, 1, 7)

SixFields == EveryMinute \o <<" ", "*">>

WideSpaced == <<" ", "*", " ", " ">> \o SubSeq(EveryMinute, 3, 9)

BadField == <<"x">> \o SubSeq(EveryMinute, 2, 9)

CronExprs == {EveryMinute, FourFields, SixFields, WideSpaced, BadField}

\* str.split(): the maximal runs of characters that are not whitespace.
RECURSIVE split_from(_, _, _)
split_from(s, i, field) ==
    IF i > Len(s) THEN (IF field = <<>> THEN <<>> ELSE <<field>>)
    ELSE IF s[i] = " "
         THEN (IF field = <<>> THEN <<>> ELSE <<field>>) \o split_from(s, i + 1, <<>>)
         ELSE split_from(s, i + 1, Append(field, s[i]))

split(s) == split_from(s, 1, <<>>)

\* add_job(trigger='cron', minute=..., ...): the cron trigger raises ValueError
\* for a field expression it does not know.
CronFieldsValid(cron_parts) == \A i \in DOMAIN cron_parts : cron_parts[i] = <<"*">>

JobSchedule == [name : ScheduleNames, job_type : SchedTypes,
                cron_expression : CronExprs, enabled : BOOLEAN]

\* len(name): one of the names stands for the shortest name whose timestamped
\* job name is longer than BatchJobCreate.name allows.
NameLength(name) == IF name = "long" THEN MaxNameLength - FireSuffix + 1 ELSE Len(name)

\* f"scheduled_job_{name}"
trigger_id(name) == "scheduled_job_" \o name

add_job_no_replace(js, job) == js \cup {job}

\* scheduler.add_job(..., replace_existing=True)
add_job(js, job) == {j \in js : j.id # job.id} \cup {job}

\* What the scheduler operations act on, with the value the operation returns.
SchedWorld ==
    [scheduler |-> scheduler, scheduled_jobs |-> scheduled_jobs, jobstore |-> jobstore,
     ok |-> FALSE]

schedule_job(S, job_schedule) ==
    LET S1 == [S EXCEPT !.scheduler = TRUE]
        cron_parts == split(job_schedule.cron_expression) IN
    IF Len(cron_parts) # 5 THEN [S1 EXCEPT !.ok = FALSE]
    ELSE IF ~CronFieldsValid(cron_parts) THEN [S1 EXCEPT !.ok = FALSE]
    ELSE [S1 EXCEPT
            !.jobstore = add_job(@, [id |-> trigger_id(job_schedule.name),
                                     args |-> job_schedule, paused |-> FALSE]),
            !.scheduled_jobs = {x \in @ : x.name # job_schedule.name} \cup {job_schedule},
            !.ok = TRUE]

\* remove_job, pause_job and resume_job of the scheduler raise JobLookupError
\* for an id that is not in the job store.
Registered(js, job_name) == \E j \in js : j.id = trigger_id(job_name)

unschedule_job_trigger_only(S, job_name) ==
    IF ~S.scheduler THEN [S EXCEPT !.ok = FALSE]
    ELSE IF ~Registered(S.jobstore, job_name) THEN [S EXCEPT !.ok = FALSE]
    ELSE [S EXCEPT !.jobstore = {j \in @ : j.id # trigger_id(job_name)}, !.ok = TRUE]

unschedule_job(S, job_name) ==
    IF ~S.scheduler THEN [S EXCEPT !.ok = FALSE]
    ELSE IF ~Registered(S.jobstore, job_name) THEN [S EXCEPT !.ok = FALSE]
    ELSE [S EXCEPT !.jobstore = {j \in @ : j.id # trigger_id(job_name)},
                   !.scheduled_jobs = {x \in @ : x.name # job_name},
                   !.ok = TRUE]

set_paused(js, job_name, value) ==
    {IF j.id = trigger_id(job_name) THEN [j EXCEPT !.paused = value] ELSE j : j \in js}

pause_job_all(S, job_name) ==
    IF ~S.scheduler THEN [S EXCEPT !.ok = FALSE]
    ELSE IF ~Registered(S.jobstore, job_name) THEN [S EXCEPT !.ok = FALSE]
    ELSE [S EXCEPT !.jobstore = {[j EXCEPT !.paused = TRUE] : j \in @}, !.ok = TRUE]

pause_job(S, job_name) ==
    IF ~S.scheduler THEN [S EXCEPT !.ok = FALSE]
    ELSE IF ~Registered(S.jobstore, job_name) THEN [S EXCEPT !.ok = FALSE]
    ELSE [S EXCEPT !.jobstore = set_paused(@, job_name, TRUE), !.ok = TRUE]

resume_job(S, job_name) ==
    IF ~S.scheduler THEN [S EXCEPT !.ok = FALSE]
    ELSE IF ~Registered(S.jobstore, job_name) THEN [S EXCEPT !.ok = FALSE]
    ELSE [S EXCEPT !.jobstore = set_paused(@, job_name, FALSE), !.ok = TRUE]

\* BatchJobCreate(name=f"{name}<suffix>", ...): name has max_length 200.
CreateRequestValid(job_schedule, suffix) ==
    NameLength(job_schedule.name) + suffix <= MaxNameLength

\* What a firing acts on: the manager, and who made which job; with how the
\* call ended (outcome) and the id it returned (ret).
Manager ==
    [store |-> store, running_jobs |-> running_jobs, tasks |-> tasks,
     issued |-> issued, created |-> created, origin |-> origin,
     outcome |-> "none", ret |-> NoneVal]

\* batch_service.create_job(batch_job_data) then batch_service.execute_job(id)
create_and_execute(M, job_type, id, by, t) ==
    LET c == create_job(M.store, id, job_type, DefaultRetryCount, t)
        w == execute_job([store |-> c.store, running_jobs |-> M.running_jobs,
                          tasks |-> M.tasks, ok |-> FALSE], id, t) IN
    [store |-> w.store, running_jobs |-> w.running_jobs, tasks |-> w.tasks,
     issued |-> M.issued \cup {id},
     created |-> [M.created EXCEPT ![id] = c.job],
     origin |-> [M.origin EXCEPT ![id] = by],
     outcome |-> IF w.ok THEN "started" ELSE "not_started",
     ret |-> IF w.ok THEN Some(id) ELSE NoneVal]

execute_scheduled_job_skips(M, job_schedule, id, t) == [M EXCEPT !.outcome = "skipped"]

execute_scheduled_job_ignore_enabled(M, job_schedule, id, t) ==
    IF ~CreateRequestValid(job_schedule, FireSuffix) THEN [M EXCEPT !.outcome = "raised"]
    ELSE create_and_execute(M, job_schedule.job_type, id, job_schedule.name, t)

\* _execute_scheduled_job: whatever is raised is logged; nothing is returned.
execute_scheduled_job(M, job_schedule, id, t) ==
    IF ~job_schedule.enabled THEN [M EXCEPT !.outcome = "skipped"]
    ELSE IF ~CreateRequestValid(job_schedule, FireSuffix) THEN [M EXCEPT !.outcome = "raised"]
    ELSE [create_and_execute(M, job_schedule.job_type, id, job_schedule.name, t)
            EXCEPT !.ret = NoneVal]

run_job_immediately_no_raise(M, job_schedule, id, t) ==
    IF ~CreateRequestValid(job_schedule, ManualSuffix) THEN [M EXCEPT !.outcome = "raised"]
    ELSE [create_and_execute(M, job_schedule.job_type, id, ManualRun, t)
            EXCEPT !.ret = Some(id)]

\* run_job_immediately: returns the id of the started job, raises otherwise.
run_job_immediately(M, job_schedule, id, t) ==
    IF ~CreateRequestValid(job_schedule, ManualSuffix) THEN [M EXCEPT !.outcome = "raised"]
    ELSE LET r == create_and_execute(M, job_schedule.job_type, id, ManualRun, t) IN
         IF r.outcome = "started" THEN r ELSE [r EXCEPT !.outcome = "raised"]

\* uuid4: an id no job has; TLC takes the ids in order.
HasNextId == \E id \in JobIds : id \notin issued /\ id <= scope.jobs

NextId == CHOOSE id \in JobIds \ issued : \A o \in JobIds \ issued : id <= o

ApplyManager(r) ==
    /\ store' = r.store
    /\ running_jobs' = r.running_jobs
    /\ tasks' = r.tasks
    /\ issued' = r.issued
    /\ created' = r.created
    /\ origin' = r.origin

ApplyScheduler(S) ==
    /\ scheduler' = S.scheduler
    /\ scheduled_jobs' = S.scheduled_jobs
    /\ jobstore' = S.jobstore

manager_vars == <<store, running_jobs, tasks, now, issued, created, json_datetime, scope>>

ScheduleJob(job_schedule) ==
    /\ ApplyScheduler(schedule_job(SchedWorld, job_schedule))
    /\ UNCHANGED <<manager_vars, exec_vars, origin>>

UnscheduleJob(job_name) ==
    /\ ApplyScheduler(unschedule_job(SchedWorld, job_name))
    /\ UNCHANGED <<manager_vars, exec_vars, origin>>

PauseJob(job_name) ==
    /\ ApplyScheduler(pause_job(SchedWorld, job_name))
    /\ UNCHANGED <<manager_vars, exec_vars, origin>>

ResumeJob(job_name) ==
    /\ ApplyScheduler(resume_job(SchedWorld, job_name))
    /\ UNCHANGED <<manager_vars, exec_vars, origin>>

FiringFailures == {"raised", "not_started"}

after_run_drop_failed(js, j, outcome) == IF outcome \in FiringFailures THEN js \ {j} ELSE js

\* The job store after a run of trigger j: _execute_scheduled_job only logs
\* what went wrong, and a cron trigger stays in the job store after a run.
after_run(js, j, outcome) == js

\* The timer loop of a started scheduler runs a trigger that is in the job
\* store and not paused, with the arguments given to add_job.
Fire(j) ==
    /\ scheduler
    /\ j \in jobstore
    /\ ~j.paused
    /\ HasNextId
    /\ LET r == execute_scheduled_job(Manager, j.args, NextId, now) IN
         /\ ApplyManager(r)
         /\ jobstore' = after_run(jobstore, j, r.outcome)
    /\ UNCHANGED <<now, json_datetime, scope, exec_vars, scheduler, scheduled_jobs>>

RunJobImmediately(job_schedule) ==
    /\ HasNextId
    /\ ApplyManager(run_job_immediately(Manager, job_schedule, NextId, now))
    /\ UNCHANGED <<now, json_datetime, scope, exec_vars, scheduler, scheduled_jobs, jobstore>>

Triggers == [id : {trigger_id(n) : n \in ScheduleNames}, args : JobSchedule, paused : BOOLEAN]

ScopesSched == {[jobs |-> Cardinality(JobIds), tasks |-> Cardinality(JobIds), time |-> 1]}

\* The scheduler over the manager, with the store by its contract and with
\* json.dumps as the code calls it.
InitSched == InitCommon /\ json_datetime \in BOOLEAN /\ scope \in ScopesSched

NextSched ==
    \/ \E job_schedule \in JobSchedule : ScheduleJob(job_schedule)
    \/ \E job_name \in ScheduleNames : UnscheduleJob(job_name)
    \/ \E job_name \in ScheduleNames : PauseJob(job_name)
    \/ \E job_name \in ScheduleNames : ResumeJob(job_name)
    \/ \E j \in Triggers : Fire(j)
    \/ \E job_schedule \in JobSchedule : RunJobImmediately(job_schedule)

SpecSched == InitSched /\ [][NextSched]_vars

\* A run of the trigger registered for a schedule name.
FireName(name) == \E j \in jobstore : j.id = trigger_id(name) /\ Fire(j)

\* The timer loop of the started scheduler keeps running: a trigger that stays
\* due is run.  Nothing makes a caller call.
TimerFairness == \A name \in ScheduleNames : WF_vars(FireName(name))

\* Under fairness the schedules are those that fire every minute.
EveryMinuteSchedules == {x \in JobSchedule : x.cron_expression = EveryMinute}

NextSchedFair ==
    \/ \E job_schedule \in EveryMinuteSchedules : ScheduleJob(job_schedule)
    \/ \E job_name \in ScheduleNames : UnscheduleJob(job_name)
    \/ \E job_name \in ScheduleNames : PauseJob(job_name)
    \/ \E job_name \in ScheduleNames : ResumeJob(job_name)
    \/ \E job_name \in ScheduleNames : FireName(job_name)
    \/ \E job_schedule \in EveryMinuteSchedules : RunJobImmediately(job_schedule)

SpecSchedFair == InitSched /\ [][NextSchedFair]_vars /\ TimerFairness

\* ================================================================ claims
Exists(id) == store[id] # NoJob

Launches(id) == Cardinality({k \in DOMAIN tasks : tasks[k].job = id})

Untouched(w) ==
    /\ w.store = store
    /\ w.running_jobs = running_jobs
    /\ w.tasks = tasks

\* A step of the waiter of task k for an executor that returned / raised.
WaiterStep(k, outcome) ==
    /\ k \in DOMAIN tasks
    /\ tasks[k].state = outcome
    /\ tasks'[k].state = "done"

\* C1 (as claimed): every change of a stored job's status is pending->running,
\* running->completed, running->failed, failed->pending, pending->cancelled or
\* running->cancelled.  retry writes pending and then running within one
\* call, seen here as failed->running.
AllowedTransitions ==
    {<<"pending", "running">>, <<"running", "completed">>, <<"running", "failed">>,
     <<"failed", "pending">>, <<"failed", "running">>,
     <<"pending", "cancelled">>, <<"running", "cancelled">>}

C1_StatusMachine ==
    [][\A id \in JobIds :
         (Exists(id) /\ store'[id] # NoJob /\ store'[id].status # store[id].status)
            => <<store[id].status, store'[id].status>> \in AllowedTransitions]_vars

\* C2: execute(id) on a job that is not pending returns false and changes
\* neither the store nor the handle table (nor creates a task); on a pending job
\* it returns true, the status becomes running and a handle for a new task of
\* this job is registered under id.
C2_ExecuteOnlyPending ==
    \A id \in JobIds :
      LET w == execute_job(World, id, now) IN
      IF Exists(id) /\ store[id].status = "pending"
      THEN /\ w.ok
           /\ w.store[id].status = "running"
           /\ w.running_jobs[id] = Len(tasks) + 1
           /\ w.tasks[w.running_jobs[id]].job = id
           /\ w.tasks[w.running_jobs[id]].state = "running"
      ELSE ~w.ok /\ Untouched(w)

\* execute has acted on a pending job (its unit is registered and in flight)
\* while another job, not pending any more, is stored.
C2_Witness ==
    \E id \in JobIds :
      /\ Exists(id) /\ store[id].status = "running"
      /\ running_jobs[id] # NoTask /\ tasks[running_jobs[id]].state = "running"
      /\ \E o \in JobIds : Exists(o) /\ store[o].status \in {"cancelled", "failed", "completed"}

\* C3: when the waiter handles a normal return of the executor and the record
\* is stored, the job is left completed, at 100 percent, with the executor's
\* return value as result, started_at and completed_at set and
\* started_at <= completed_at.
C3_CompletedRecord ==
    [][\A k \in TaskIds :
         (WaiterStep(k, "returned") /\ Exists(tasks[k].job))
            => LET j == store'[tasks[k].job] IN
               /\ j.status = "completed"
               /\ j.progress_percent = 100
               /\ j.result = tasks[k].result
               /\ j.started_at # NoneVal
               /\ j.completed_at # NoneVal
               /\ j.started_at[1] <= j.completed_at[1]]_vars

\* A job completed later than it started, its unit finished, never having
\* reported 100 percent itself.
C3_Witness ==
    \E id \in JobIds :
      /\ Exists(id) /\ store[id].status = "completed"
      /\ store[id].result \in Results
      /\ store[id].started_at # NoneVal /\ store[id].completed_at # NoneVal
      /\ store[id].started_at[1] < store[id].completed_at[1]
      /\ \E k \in DOMAIN tasks : tasks[k].job = id /\ tasks[k].state = "done"

\* C4: when the waiter handles an error raised by the executor and the record is
\* stored, the job is left failed with error_details holding a non-empty kind
\* and the message of that error.
C4_FailedRecord ==
    [][\A k \in TaskIds :
         (WaiterStep(k, "raised") /\ Exists(tasks[k].job))
            => LET j == store'[tasks[k].job] IN
               /\ j.status = "failed"
               /\ j.error_details # NoneVal
               /\ j.error_details[1].type # ""
               /\ j.error_details[1].type = tasks[k].error[1].type
               /\ j.error_details[1].error = tasks[k].error[1].error]_vars

C4_Witness ==
    \E id \in JobIds :
      /\ Exists(id) /\ store[id].status = "failed"
      /\ store[id].error_details = Some(UnknownTypeError)
      /\ \E k \in DOMAIN tasks : tasks[k].job = id /\ tasks[k].state = "done"

\* C5 (as claimed): retry(id) returns false and changes nothing unless the job is
\* failed with attempts < retry_count; otherwise it returns true, the stored
\* attempts grow by exactly 1 and execute has run (the job is running again).
C5_RetryContract ==
    \A id \in JobIds :
      LET w == retry_job(World, id, now) IN
      IF Exists(id) /\ store[id].status = "failed"
                    /\ store[id].attempts < store[id].retry_count
      THEN /\ w.ok
           /\ w.store[id].attempts = store[id].attempts + 1
           /\ w.store[id].status = "running"
           /\ w.running_jobs[id] = Len(tasks) + 1
      ELSE ~w.ok /\ Untouched(w)

\* C6 (as claimed): the executor of a job is launched at most 1 + retry_count
\* times, and attempts <= retry_count.
C6_RetriesBounded ==
    \A id \in JobIds :
      Exists(id) => /\ Launches(id) <= 1 + store[id].retry_count
                    /\ store[id].attempts <= store[id].retry_count

\* C7 (as claimed): once cancel was called for a job whose handle was registered
\* (Task.cancel() was called on its unit), no step changes the progress of the
\* record any more and its status is and stays cancelled.
C7_CancelStopsUpdates ==
    [][\A k \in TaskIds :
         (k \in DOMAIN tasks /\ tasks[k].cancel_requested
            /\ Exists(tasks[k].job) /\ store'[tasks[k].job] # NoJob)
            => /\ store'[tasks[k].job].status = "cancelled"
               /\ store'[tasks[k].job].progress_percent
                     = store[tasks[k].job].progress_percent]_vars

\* C8 (as claimed): right after create, get(id) returns the record create
\* returned, which is pending with attempts 0 and progress 0 and has an id no
\* job created before has.
C8_CreateGetRoundTrip ==
    [][\A id \in JobIds :
         (id \notin issued /\ id \in issued')
            => /\ get_job(store', id) = created'[id]
               /\ created'[id].status = "pending"
               /\ created'[id].attempts = 0
               /\ created'[id].progress_percent = 0
               /\ \A o \in issued : created[o].id # created'[id].id]_vars

\* C9 (as claimed): for an id with no stored record, get is absent, update,
\* execute, cancel, retry and delete return false, and none of them changes the
\* store or the handle table.
C9_NotFound ==
    \A id \in JobIds :
      ~Exists(id) =>
        /\ get_job(store, id) = NoJob
        /\ ~update_job_ok(store, id)
        /\ \A p \in ProgressVals :
             update_job(store, id, BatchJobUpdate([progress_percent |-> p]), now) = store
        /\ ~execute_job(World, id, now).ok /\ Untouched(execute_job(World, id, now))
        /\ ~cancel_job(World, id, now).ok /\ Untouched(cancel_job(World, id, now))
        /\ ~retry_job(World, id, now).ok /\ Untouched(retry_job(World, id, now))
        /\ ~delete_job(World, id, now).ok /\ Untouched(delete_job(World, id, now))

\* C10: delete(id) returns true exactly when a record for id was stored; a
\* registered unit has had Task.cancel() called on it; afterwards get(id) is
\* absent, no handle is registered for id, and the other jobs' records and
\* handles are as before.
C10_Delete ==
    \A id \in JobIds :
      LET w == delete_job(World, id, now) IN
      /\ w.ok = Exists(id)
      /\ get_job(w.store, id) = NoJob
      /\ w.running_jobs[id] = NoTask
      /\ running_jobs[id] # NoTask
           => /\ w.tasks[running_jobs[id]].cancel_requested
              /\ w.tasks[running_jobs[id]].state # "running"
      /\ \A o \in JobIds \ {id} :
           w.store[o] = store[o] /\ w.running_jobs[o] = running_jobs[o]

\* delete has acted on a job whose unit was in flight: the record is gone, the
\* handle too, the unit got its cancellation; another job is still stored.
C10_Witness ==
    \E id \in issued :
      /\ ~Exists(id) /\ running_jobs[id] = NoTask
      /\ \E k \in DOMAIN tasks :
           tasks[k].job = id /\ tasks[k].state = "cancelling" /\ tasks[k].cancel_requested
      /\ \E o \in JobIds \ {id} : Exists(o)

\* C11: once the unit of an executed job has its outcome (returned, raised, or
\* cancelled) the handle table eventually holds no entry for the job's id, and
\* in no state does the handle table hold a unit whose waiter has finished.
C11_HandleCleared ==
    /\ [](\A id \in JobIds :
            running_jobs[id] # NoTask => tasks[running_jobs[id]].state # "done")
    /\ \A k \in TaskIds :
         (k \in DOMAIN tasks /\ tasks[k].state \in {"returned", "raised", "cancelling"})
            ~> (k \in DOMAIN tasks /\ tasks[k].state = "done"
                  /\ running_jobs[tasks[k].job] = NoTask)

\* A job was launched again after a failure; the unit that raised and the one
\* that returned have finished with their waiters, and no handle is left.
C11_Witness ==
    \E id \in JobIds :
      /\ running_jobs[id] = NoTask
      /\ Launches(id) > 1
      /\ \A k \in DOMAIN tasks : tasks[k].state = "done"
      /\ Exists(id) /\ store[id].status = "completed"

\* C12 (as claimed): a stored job whose status is failed gets another status
\* only by a step that is a retry(id) call returning true; no other step (the
\* waiter, a progress update, the executor, another request) changes it.
C12_NoAutoRetry ==
    [][\A id \in JobIds :
         (Exists(id) /\ store[id].status = "failed"
            /\ store'[id] # NoJob /\ store'[id].status # "failed")
            => /\ retry_job(World, id, now).ok
               /\ store' = retry_job(World, id, now).store
               /\ tasks' = retry_job(World, id, now).tasks]_vars

\* C13 (as claimed): a stored job whose status is cancelled has no
\* error_details.
C13_CancelledNoError ==
    \A id \in JobIds :
      (Exists(id) /\ store[id].status = "cancelled") => store[id].error_details = NoneVal

\* C14 (as claimed): when the path a bulk-index or document-index job names does
\* not exist, the waiter leaves the job failed.
C14_MissingPathFails ==
    [][\A k \in TaskIds :
         (/\ k \in DOMAIN tasks
          /\ tasks[k].state \in {"returned", "raised"}
          /\ tasks'[k].state = "done"
          /\ ~fs.path_exists
          /\ Exists(tasks[k].job))
            => store'[tasks[k].job].status = "failed"]_vars

\* The enumerated files the loop skips, and those whose indexing fails.
SkippedFiles ==
    {i \in DOMAIN fs.files : ~fs.overwrite_existing /\ fs.files[i].indexed}

FailingFiles == {i \in DOMAIN fs.files : fs.files[i].kind = "malformed"}

BulkRunReturned(k) ==
    /\ k \in DOMAIN tasks
    /\ tasks[k].job_type = "bulk_index"
    /\ tasks[k].state = "returned"
    /\ fs.path_exists

\* C15 (as claimed): a bulk-index run over N files of which K fail returns
\* processed_count + failed_count = N and failed_count = K.
C15_BulkCountsAsClaimed ==
    \A k \in TaskIds :
      BulkRunReturned(k)
        => /\ tasks[k].result.processed_count + tasks[k].result.failed_count = Len(fs.files)
           /\ tasks[k].result.failed_count = Cardinality(FailingFiles)

\* C15 (amended): a bulk-index run over N enumerated files returns
\* processed_count + failed_count = N minus the files skipped (already indexed,
\* overwrite_existing false), failed_count = the number of files not skipped
\* whose indexing fails, and the executor does not raise once its parameters
\* are valid.
C15_BulkCounts ==
    \A k \in TaskIds :
      /\ BulkRunReturned(k)
           => /\ tasks[k].result.processed_count + tasks[k].result.failed_count
                    = Len(fs.files) - Cardinality(SkippedFiles)
              /\ tasks[k].result.failed_count = Cardinality(FailingFiles \ SkippedFiles)
      /\ (k \in DOMAIN tasks /\ tasks[k].job_type = "bulk_index" /\ fs.params_valid)
           => tasks[k].state # "raised"

\* A run over MaxFiles files has returned: one file was skipped, one failed,
\* one was indexed.
C15_Witness ==
    \E k \in TaskIds :
      /\ BulkRunReturned(k)
      /\ Len(fs.files) = MaxFiles
      /\ Cardinality(SkippedFiles) = 1
      /\ tasks[k].result.failed_count = 1
      /\ tasks[k].result.processed_count = MaxFiles - 2

\* What a firing of trigger j would do in the current state.
FireResult(j) == execute_scheduled_job(Manager, j.args, NextId, now)

NothingCreated(r) ==
    /\ r.issued = issued
    /\ r.store = store
    /\ r.running_jobs = running_jobs
    /\ r.tasks = tasks

\* Exactly one job, the one with the new id, was created from job_type, and
\* execute was called on it: it is running with a handle, or, where the
\* record could not be stored, execute found nothing to start.
OneJobCreated(r, job_type) ==
    /\ r.issued = issued \cup {NextId}
    /\ r.created[NextId] = BatchJob(NextId, job_type, DefaultRetryCount, now)
    /\ \A o \in JobIds \ {NextId} : r.store[o] = store[o] /\ r.created[o] = created[o]
    /\ IF r.store[NextId] = NoJob
       THEN r.outcome \in FiringFailures /\ r.tasks = tasks
       ELSE /\ r.outcome = "started"
            /\ r.store[NextId].status = "running"
            /\ r.running_jobs[NextId] = Len(tasks) + 1
            /\ r.tasks[Len(tasks) + 1].job = NextId

\* A step in which a job is created leaves the schedule specs and triggers
\* as they are.
CreationKeepsSchedules ==
    [][issued' # issued => (scheduled_jobs' = scheduled_jobs /\ jobstore' = jobstore)]_vars

FieldCount(s) ==
    Cardinality({i \in DOMAIN s : s[i] # " " /\ (i = 1 \/ s[i - 1] = " ")})

TriggersOf(js, name) == {j \in js : j.id = trigger_id(name)}

SpecsOf(sj, name) == {x \in sj : x.name = name}

OthersUnchanged(r, name) ==
    \A o \in ScheduleNames \ {name} :
      /\ TriggersOf(r.jobstore, o) = TriggersOf(jobstore, o)
      /\ SpecsOf(r.scheduled_jobs, o) = SpecsOf(scheduled_jobs, o)

C19_FailureKeepsSchedule ==
    /\ [](\A j \in jobstore :
            (HasNextId /\ FireResult(j).outcome \in FiringFailures)
               => after_run(jobstore, j, FireResult(j).outcome) = jobstore)
    /\ CreationKeepsSchedules

\* Two firings of one trigger have each made a job that was not started, and
\* the trigger is still registered and not paused.
C19_Witness ==
    \E j \in jobstore :
      /\ ~j.paused /\ scheduler /\ j.args \in scheduled_jobs
      /\ \A id \in JobIds : origin[id] = j.args.name /\ id \in issued /\ ~Exists(id)

\* What run_immediately(spec) would do in the current state.
RunResult(job_schedule) == run_job_immediately(Manager, job_schedule, NextId, now)

\* The id of the started job is returned; a job that was not started makes
\* the call raise.
ReturnsStartedId(r) ==
    IF r.outcome = "started" THEN r.ret = Some(NextId)
    ELSE r.outcome = "raised" /\ r.ret = NoneVal

StatusFilters == {NoneStr} \cup BatchJobStatus

TypeFilters == {NoneStr} \cup JobTypes

\* C21: whatever the store holds and in whatever order its keys come,
\* get_job_statistics reports a total_jobs that is the sum of its five status
\* counts, and a success rate exactly when a job has completed or failed, of
\* the value completed / (completed + failed) * 100.
C21_Statistics ==
    \A keys \in KeyOrders(store) :
        LET stats == get_job_statistics(store, keys)
            finished == stats.completed_jobs + stats.failed_jobs
        IN /\ stats.total_jobs = stats.pending_jobs + stats.running_jobs
                  + stats.completed_jobs + stats.failed_jobs + stats.cancelled_jobs
           /\ (stats.success_rate_percent # NoneVal) <=> (finished > 0)
           /\ stats.success_rate_percent # NoneVal =>
                  stats.success_rate_percent[1].num * finished
                      = stats.completed_jobs * 100 * stats.success_rate_percent[1].den

\* A completed job next to a cancelled one: the rate is there, over one job.
C21_Witness ==
    \E keys \in KeyOrders(store) :
        LET stats == get_job_statistics(store, keys) IN
        /\ stats.total_jobs = 2
        /\ stats.completed_jobs = 1
        /\ stats.cancelled_jobs = 1
        /\ stats.success_rate_percent = Some([num |-> 100, den |-> 1])

Ids(jobs) == {jobs[i].id : i \in DOMAIN jobs}

\* C22: list_jobs returns stored jobs that pass every given filter, each once,
\* newest first, no more than limit of them, as many as limit allows, and none
\* it leaves out is newer than one it returns.
C22_List ==
    \A keys \in KeyOrders(store), status \in StatusFilters, job_type \in TypeFilters,
       limit \in Limits :
        LET jobs == list_jobs(store, keys, status, job_type, limit)
            matching == {id \in Keys(store) : passes_filters(store[id], status, job_type)}
        IN /\ \A i \in DOMAIN jobs :
                  jobs[i] = store[jobs[i].id] /\ passes_filters(jobs[i], status, job_type)
           /\ Cardinality(Ids(jobs)) = Len(jobs)
           /\ Len(jobs) > 0 => Len(jobs) <= limit
           /\ Len(jobs) < limit => Ids(jobs) = matching
           /\ \A i, j \in DOMAIN jobs : i < j => jobs[i].created_at >= jobs[j].created_at
           /\ \A id \in matching \ Ids(jobs), i \in DOMAIN jobs :
                  store[id].created_at <= jobs[i].created_at

Stays(id) == Exists(id) /\ store'[id] # NoJob

Terminal == {"completed", "failed", "cancelled"}

\* C23: started_at is unset when the job is created, gets the time of the
\* step that first turns the status to running, in that step and in no other,
\* and keeps that value through every later update, retry and re-execution.
C23_StartedAtOnce ==
    [][\A id \in JobIds :
         /\ (~Exists(id) /\ store'[id] # NoJob) => store'[id].started_at = NoneVal
         /\ Stays(id) =>
              /\ store[id].started_at # NoneVal => store'[id].started_at = store[id].started_at
              /\ (store[id].status # "running" /\ store'[id].status = "running")
                     => store'[id].started_at # NoneVal
              /\ (store[id].started_at = NoneVal /\ store'[id].started_at # NoneVal)
                     => /\ store[id].status = "pending"
                        /\ store'[id].status = "running"
                        /\ store'[id].started_at = Some(now)]_vars

\* A job started at time 1 that failed at time 2, was retried and runs again.
C23_Witness ==
    \E id \in JobIds :
        /\ Exists(id)
        /\ store[id].status = "running"
        /\ store[id].started_at = Some(1)
        /\ store[id].completed_at = Some(2)
        /\ Launches(id) = 2

\* C24 (as claimed): once completed_at has a value no step changes it.
C24_CompletedAtOnce ==
    [][\A id \in JobIds :
         (Stays(id) /\ store[id].completed_at # NoneVal)
             => store'[id].completed_at = store[id].completed_at]_vars

\* C25 (as claimed): a stored job has completed_at set exactly while its
\* status is completed, failed or cancelled.
C25_CompletedAtIffTerminal ==
    \A id \in JobIds :
        Exists(id) => ((store[id].status \in Terminal) <=> (store[id].completed_at # NoneVal))

\* C26 (as claimed): updated_at is never earlier than created_at, and a step
\* that changes a stored record leaves it with the time of the step as its
\* updated_at.
C26_UpdatedAt ==
    /\ [](\A id \in JobIds : Exists(id) => store[id].updated_at >= store[id].created_at)
    /\ [][\A id \in JobIds :
            (Stays(id) /\ store'[id] # store[id]) => store'[id].updated_at >= now]_vars

\* The trigger of the schedule is in the job store of the started scheduler,
\* not paused, its schedule enabled, and registered under its own name.
Due(name) ==
    /\ scheduler
    /\ \E j \in jobstore :
         j.id = trigger_id(name) /\ j.args.name = name /\ j.args.enabled /\ ~j.paused

CreatedBy(name) == \E id \in JobIds : origin[id] = name

FiredNameFits(name) == NameLength(name) + FireSuffix <= MaxNameLength

Stamps == {"started_at", "completed_at"}

\* C28: no update is lost.  A step that changes a stored record is the set of
\* an update_job in flight for that job, and it changes no field but those the
\* update assigns and the two timestamps update_job derives from the status:
\* every other field keeps the value the store held just before the set, so
\* nothing another update wrote in between is put back to an older value.
C28_NoLostUpdate ==
    [][\A id \in JobIds :
         (Stays(id) /\ store'[id] # store[id]) =>
             \E i \in DOMAIN calls :
                 /\ calls[i].id = id
                 /\ Head(calls[i].steps) = "write"
                 /\ store'[id] = calls[i].job
                 /\ \A f \in (DOMAIN store[id]) \ (calls[i].fields \cup Stamps) :
                        store'[id][f] = store[id][f]]_vars

\* The update of a progress task and the update of cancel have both been
\* applied to a job whose unit had emitted progress: neither is lost.
C28_Witness ==
    \E id \in JobIds :
        /\ Exists(id)
        /\ store[id].status = "cancelled"
        /\ store[id].progress_percent = 50
        /\ store[id].message = "Job cancelled by user"
        /\ \E k \in DOMAIN tasks : tasks[k].job = id /\ tasks[k].cancel_requested
        /\ calls = NoCalls

\* C29 (as claimed): once cancel has been called on a unit, the step in which
\* the waiter of that unit finishes changes no record, whether the unit was
\* still running when cancel ran or had already returned or raised.
C29_WaiterSilentAfterCancel ==
    [][\A k \in TaskIds :
         (k \in DOMAIN tasks /\ tasks[k].cancel_requested
            /\ tasks[k].state # "done" /\ tasks'[k].state = "done")
            => store' = store]_vars

\* C30: in every reachable state, cancel(id) on a stored job returns true and
\* leaves the record with status cancelled and no handle for id, whatever the
\* status was and whether or not a handle was registered.
C30_CancelAlways ==
    \A id \in JobIds :
        Exists(id) =>
            LET w == cancel_job(World, id, now) IN
            /\ w.ok
            /\ w.store[id] # NoJob
            /\ w.store[id].status = "cancelled"
            /\ w.running_jobs[id] = NoTask

\* cancel has run on a job that had completed: cancelled, with the progress,
\* result and completed_at of the completion, and no handle; another launch of
\* the job has failed before.
C30_Witness ==
    \E id \in JobIds :
        /\ Exists(id)
        /\ store[id].status = "cancelled"
        /\ store[id].progress_percent = 100
        /\ store[id].result \in Results
        /\ store[id].completed_at # NoneVal
        /\ store[id].error_details # NoneVal
        /\ running_jobs[id] = NoTask

\* ------------------------------------------------------------- C31 .. C39
Reachable == {"pending", "running", "completed", "failed", "cancelled"}

\* C31: in every reachable state the status of every stored job is pending,
\* running, completed, failed or cancelled, never retrying.
C31_NeverRetrying ==
    \A id \in JobIds : Exists(id) => store[id].status \in Reachable

\* A failed job that retry has launched again: it is running, not retrying.
C31_Witness ==
    \E id \in JobIds :
        /\ Exists(id)
        /\ Launches(id) = 2
        /\ store[id].status = "running"
        /\ store[id].error_details # NoneVal
        /\ running_jobs[id] = 2

\* completed_at is stamped by every update to completed or failed and by
\* nothing else, and is never cleared.
NeverFinished(job) == job.completed_at = NoneVal

LiveUnits(tk, id) == {k \in DOMAIN tk : tk[k].job = id /\ tk[k].state # "done"}

\* C34: an executor is launched for a job only from status pending, with no
\* unit of the job in flight, and the launch ends the pending period (the
\* record is running afterwards); so a job never has two units in flight and
\* of two calls in one pending period at most one launches and returns true.
C34_OneUnitInFlight ==
    [][\A id \in JobIds :
         /\ Cardinality(LiveUnits(tasks', id)) <= 1
         /\ Launches(id)' > Launches(id) =>
              /\ Launches(id)' = Launches(id) + 1
              /\ LiveUnits(tasks, id) = {}
              /\ Exists(id) /\ store[id].status = "pending"
              /\ store'[id].status = "running"]_vars

\* A second unit of a job is in flight after the first one has finished.
C34_Witness ==
    \E id \in JobIds :
        /\ Launches(id) = 2
        /\ Cardinality(LiveUnits(tasks, id)) = 1
        /\ Exists(id) /\ store[id].status = "running"
        /\ calls = NoCalls

\* C35: no step takes a record that is completed with progress_percent 100
\* back to running or to a lower progress_percent; the progress updates of
\* the job's executor have all been applied before the waiter writes.
C35_CompletedStable ==
    [][\A id \in JobIds :
         (Stays(id) /\ store[id].status = "completed" /\ store[id].progress_percent = 100)
             => /\ store'[id].status # "running"
                /\ store'[id].progress_percent >= 100]_vars

\* A bulk job is completed with progress_percent 100 and the last progress
\* its executor reported, after its last batch, was lower.
C35_Witness ==
    \E id \in JobIds :
        /\ Exists(id)
        /\ store[id].status = "completed"
        /\ store[id].progress_percent = 100
        /\ \E k \in DOMAIN tasks :
             /\ tasks[k].job = id
             /\ tasks[k].state = "done"
             /\ proc[k].i > 2
             /\ bulk_progress(proc[k], Len(fs.files)) < 100

\* The job was created and its record is not in the store.
Gone(id) == id \in issued /\ ~Exists(id)

\* C36: once the record of a created job is gone from the store no step
\* brings it back: the updates of a progress task, of the waiter and of
\* cancel_job find no record and write nothing.
C36_NeverResurrected ==
    [][\A id \in JobIds : Gone(id) => Gone(id)']_vars

\* The waiter of a job whose executor has finished resumes, to make its
\* update, after the record was deleted.
C36_Witness ==
    \E id \in JobIds :
        /\ Gone(id)
        /\ \E i \in DOMAIN calls :
             /\ calls[i].op = "waiter"
             /\ calls[i].id = id
             /\ Head(calls[i].steps) = "read_outcome"

\* Every executor terminates: each unit is, from some point on, not running.
ExecutorTerminates ==
    \A k \in TaskIds : <>[](k \in DOMAIN tasks => tasks[k].state # "running")

\* C37 (as claimed): when every executor terminates and the event loop is
\* fair, a stored job that is running eventually has a terminal status (or
\* is deleted), also when the server does not take the waiter's write.
C37_RunningEndsTerminal ==
    ExecutorTerminates =>
        \A id \in JobIds :
            (Exists(id) /\ store[id].status = "running")
                ~> (~Exists(id) \/ store[id].status \in Terminal)

StoredIds == {id \in DOMAIN store : store[id] # NoJob}

\* The keys of the store as `keys` may return them: by id, up or down.
KeysById(up) ==
    [i \in 1..Cardinality(StoredIds) |->
        CHOOSE id \in StoredIds :
            Cardinality({j \in StoredIds : IF up THEN j < id ELSE j > id}) = i - 1]

StoredWith(status) == Cardinality({id \in StoredIds : store[id].status = status})

\* C38 (as claimed): get_job_statistics counts every job in the store:
\* total_jobs is the number of stored records and each status count the
\* number of stored jobs with that status, however many jobs are stored.
C38_StatisticsCoverStore ==
    \A up \in BOOLEAN :
        LET stats == get_job_statistics(store, KeysById(up)) IN
        /\ stats.total_jobs = Cardinality(StoredIds)
        /\ stats.pending_jobs = StoredWith("pending")
        /\ stats.running_jobs = StoredWith("running")
        /\ stats.completed_jobs = StoredWith("completed")
        /\ stats.failed_jobs = StoredWith("failed")
        /\ stats.cancelled_jobs = StoredWith("cancelled")

====
